---- MODULE Spec2Model ----
(***************************************************************************)
(* The to-do list of src/app.py: the Task record, the TaskManager and the  *)
(* session store (st.session_state) it mirrors its collection to.          *)
(*                                                                         *)
(* A Task object is a record of its instance attributes: the six that      *)
(* __init__ sets, and whatever update_task has added with setattr.  The    *)
(* manager collection self.tasks is a sequence of Task records; a          *)
(* reference to a Task of the collection (what get_task_by_id returns) is  *)
(* its position in that sequence, with 0 for Python's None.  The session   *)
(* store is an optional value: <<>> when the key 'tasks' is absent,        *)
(* <<snapshot>> when present.  datetime.now() is a read of a clock that    *)
(* never goes back and may advance between any two reads.  A call that     *)
(* raises an exception leaves the state as it was when the exception was   *)
(* raised, and returns nothing.                                            *)
(***************************************************************************)
EXTENDS Integers, Sequences, FiniteSets, TLC

VARIABLES
    pc,       \* "start": before `manager = TaskManager()`; "ready": after it
    tasks,    \* TaskManager.tasks
    store,    \* st.session_state: <<>> (no 'tasks' key) or <<list of dicts>>
    clock,    \* the latest value datetime.now() has returned
    op,       \* the last call made: its name,
    arg,      \*   its argument,
    raised,   \*   the exception it raised (None when it returned),
    val       \*   and the value it returned (None when it raised)

vars == <<pc, tasks, store, clock, op, arg, raised, val>>

(* Bounds of the model. *)
MaxTasks == 2          \* add is not called on a collection of this size
MaxClock == 1          \* the clock stops advancing here
TicksPerSecond == 2    \* clock ticks in a second (microseconds, scaled down)

None == "None"

(* Inputs: (title, description) of the "Add Task" form, ids, status filters. *)
AddInputs == {<<"", "">>, <<"", "d">>, <<"a", "d">>}
TaskIds == 1..MaxTasks
StatusFilters == {None, "pending", "completed"}

(***************************************************************************)
(* datetime.isoformat(): seconds, and the fraction only when it is not 0.  *)
(***************************************************************************)
isoformat(t) ==
    IF t % TicksPerSecond = 0
    THEN <<t \div TicksPerSecond>>
    ELSE <<t \div TicksPerSecond, t % TicksPerSecond>>

(***************************************************************************)
(* The keyword arguments update_task is called with: a dict, as the        *)
(* sequence of its (key, value) items in the order kwargs.items() yields   *)
(* them.  StatusKwargs name no attribute of a Task other than status (the  *)
(* checkbox callback passes status alone); AttrKwargs name other           *)
(* attributes of the instance and of its class.                            *)
(***************************************************************************)
NoKwargs == <<>>
StatusKwargs ==
    << << <<"status", "completed">> >>,
       << <<"status", "pending">> >>,
       << <<"status", "archived">> >>,
       << <<"priority", 1>> >>,
       NoKwargs >>
AttrKwargs ==
    << << <<"status", "completed">> >>,
       << <<"id", 1>> >>,
       << <<"created_at", isoformat(0)>> >>,
       << <<"to_dict", 1>> >>,
       << <<"_generate_id", 1>> >>,
       << <<"status", "completed">>, <<"__class__", 1>> >> >>

(* Python truthiness of an optional string (`if title:`, `if status_filter:`). *)
truthy(x) == x # None /\ x # ""

(* st.session_state.get('tasks', []) *)
session_get(st) == IF st = <<>> THEN <<>> ELSE st[1]

(* Task._generate_id *)
_generate_id(st) == Len(session_get(st)) + 1

(* Task.__init__: c1 and c2 are the two clock reads. *)
Task(title, description, status, st, c1, c2) ==
    [ id          |-> _generate_id(st),
      title       |-> title,
      description |-> description,
      status      |-> status,
      created_at  |-> isoformat(c1),
      updated_at  |-> isoformat(c2) ]

(* Task.to_dict *)
to_dict(t) ==
    [ id          |-> t.id,
      title       |-> t.title,
      description |-> t.description,
      status      |-> t.status,
      created_at  |-> t.created_at,
      updated_at  |-> t.updated_at ]

(* Task.from_dict *)
from_dict(data, st, c1, c2) ==
    [ Task(data.title, data.description, data.status, st, c1, c2)
        EXCEPT !.id = data.id,
               !.created_at = data.created_at,
               !.updated_at = data.updated_at ]

(* TaskManager._load_tasks: c is what the clock reads during the load. *)
_load_tasks(st, c) ==
    LET st1 == IF st = <<>> THEN << <<>> >> ELSE st
    IN  [ tasks |-> [i \in 1..Len(st1[1]) |-> from_dict(st1[1][i], st1, c, c)],
          store |-> st1 ]

(***************************************************************************)
(* Whether task.to_dict is callable: the method of the class, unless an    *)
(* instance attribute of that name hides it (the values update_task is     *)
(* given here are strings, integers and timestamps, none callable).        *)
(***************************************************************************)
to_dict_callable(t) == "to_dict" \notin DOMAIN t

(***************************************************************************)
(* TaskManager._save_tasks: the new value of st.session_state.  The list   *)
(* comprehension raises TypeError at the first task whose to_dict is not   *)
(* callable, before st.session_state.tasks is assigned.                    *)
(***************************************************************************)
_save_tasks(ts, st) ==
    IF \A i \in 1..Len(ts) : to_dict_callable(ts[i])
    THEN [ store |-> << [i \in 1..Len(ts) |-> to_dict(ts[i])] >>, raised |-> None ]
    ELSE [ store |-> st, raised |-> "TypeError" ]

(* TaskManager.add_task *)
add_task(ts, st, title, description, c1, c2) ==
    LET task == Task(title, description, "pending", st, c1, c2)
        ts1  == Append(ts, task)
        sv   == _save_tasks(ts1, st)
    IN  [ tasks |-> ts1, store |-> sv.store, raised |-> sv.raised,
          val |-> IF sv.raised = None THEN task ELSE None ]

(* The loop of TaskManager.get_task_by_id, from position i on. *)
RECURSIVE scan(_, _, _)
scan(ts, task_id, i) ==
    IF i > Len(ts) THEN 0
    ELSE IF ts[i].id = task_id THEN i
    ELSE scan(ts, task_id, i + 1)

(* Mutant: the loop variable is returned when the loop ends without a match. *)
get_task_by_id_leaky(ts, task_id) ==
    IF scan(ts, task_id, 1) # 0 THEN scan(ts, task_id, 1) ELSE Len(ts)

(* TaskManager.get_task_by_id: the position of the Task returned, 0 for None. *)
get_task_by_id(ts, task_id) == scan(ts, task_id, 1)

(***************************************************************************)
(* The attributes a Task has from its class and from object: the methods   *)
(* of class Task and the names dir(object) lists.                          *)
(***************************************************************************)
ClassAttrs ==
    { "__init__", "_generate_id", "to_dict", "from_dict",
      "__class__", "__delattr__", "__dict__", "__dir__", "__doc__", "__eq__",
      "__format__", "__ge__", "__getattribute__", "__getstate__", "__gt__",
      "__hash__", "__init_subclass__", "__le__", "__lt__", "__module__",
      "__ne__", "__new__", "__reduce__", "__reduce_ex__", "__repr__",
      "__setattr__", "__sizeof__", "__str__", "__subclasshook__",
      "__weakref__" }

(* hasattr(task, key): an attribute of the instance or of its class. *)
hasattr(t, key) == key \in DOMAIN t \/ key \in ClassAttrs

(***************************************************************************)
(* The exception setattr(task, key, value) raises, None when it sets the   *)
(* attribute: __class__ takes a class only and __dict__ a dict only        *)
(* (TypeError; the values here are neither), __weakref__ is read-only      *)
(* (AttributeError).                                                       *)
(***************************************************************************)
setattr_raises(key) ==
    IF key \in {"__class__", "__dict__"} THEN "TypeError"
    ELSE IF key = "__weakref__" THEN "AttributeError"
    ELSE None

(* setattr(task, key, value): the instance attribute is set or added. *)
setattr(t, key, value) ==
    [f \in DOMAIN t \cup {key} |-> IF f = key THEN value ELSE t[f]]

(***************************************************************************)
(* The setattr loop of update_task over kwargs.items(): the task as the    *)
(* loop leaves it, and the exception that ended the loop (None when it     *)
(* ran to its end).                                                        *)
(***************************************************************************)
RECURSIVE setattrs(_, _)
setattrs(t, kw) ==
    IF kw = <<>> THEN [ task |-> t, raised |-> None ]
    ELSE LET key   == kw[1][1]
             value == kw[1][2]
         IN  IF ~hasattr(t, key) THEN setattrs(t, Tail(kw))
             ELSE IF setattr_raises(key) # None
                  THEN [ task |-> t, raised |-> setattr_raises(key) ]
                  ELSE setattrs(setattr(t, key, value), Tail(kw))

(***************************************************************************)
(* TaskManager.update_task: c is the clock read of the refresh; now tells  *)
(* whether the call got as far as reading the clock.                       *)
(***************************************************************************)
update_task(ts, st, task_id, kw, c) ==
    LET i == get_task_by_id(ts, task_id)
    IN  IF i # 0
        THEN LET s == setattrs(ts[i], kw)
             IN  IF s.raised # None
                 THEN [ tasks |-> [ts EXCEPT ![i] = s.task], store |-> st,
                        raised |-> s.raised, val |-> None, now |-> FALSE ]
                 ELSE LET t2  == [s.task EXCEPT !.updated_at = isoformat(c)]
                          ts1 == [ts EXCEPT ![i] = t2]
                          sv  == _save_tasks(ts1, st)
                      IN  [ tasks |-> ts1, store |-> sv.store,
                            raised |-> sv.raised,
                            val |-> IF sv.raised = None THEN TRUE ELSE None,
                            now |-> TRUE ]
        ELSE [ tasks |-> ts, store |-> st, raised |-> None, val |-> FALSE,
               now |-> FALSE ]

(* list.remove of the object at position i. *)
remove(ts, i) == SubSeq(ts, 1, i - 1) \o SubSeq(ts, i + 1, Len(ts))

(* TaskManager.delete_task *)
delete_task(ts, st, task_id) ==
    LET i == get_task_by_id(ts, task_id)
    IN  IF i # 0
        THEN LET ts1 == remove(ts, i)
                 sv  == _save_tasks(ts1, st)
             IN  [ tasks |-> ts1, store |-> sv.store, raised |-> sv.raised,
                   val |-> IF sv.raised = None THEN TRUE ELSE None ]
        ELSE [ tasks |-> ts, store |-> st, raised |-> None, val |-> FALSE ]

(* Mutant: without a filter, self.tasks itself is returned. *)
get_all_tasks_aliased(ts, status_filter) ==
    IF truthy(status_filter)
    THEN LET match(t) == t.status = status_filter
         IN  [ items |-> SelectSeq(ts, match), shared |-> FALSE ]
    ELSE [ items |-> ts, shared |-> TRUE ]

(***************************************************************************)
(* TaskManager.get_all_tasks.  items is the list returned; shared tells    *)
(* whether that list is the object self.tasks itself (never: the list      *)
(* comprehension and the slice both build a new list).                     *)
(***************************************************************************)
get_all_tasks(ts, status_filter) ==
    IF truthy(status_filter)
    THEN LET match(t) == t.status = status_filter
         IN  [ items |-> SelectSeq(ts, match), shared |-> FALSE ]
    ELSE [ items |-> SubSeq(ts, 1, Len(ts)), shared |-> FALSE ]

(***************************************************************************)
(* A Python float (IEEE 754 binary64) other than 0.0 is the record         *)
(* [mant, exp] of value mant * 2^exp, mant a binary numeral of Precision   *)
(* bits, most significant first, the first of them 1; 0.0 is Zero.         *)
(* Numerals too wide for an integer of the model are sequences of bits.    *)
(***************************************************************************)
Precision == 53

Zero == [ mant |-> <<>>, exp |-> 0 ]

(* The bits one integer operation of the model handles: wide numerals are *)
(* worked on in chunks of this many bits.                                 *)
Chunk == 13

Front(bs) == SubSeq(bs, 1, Len(bs) - 1)

Last(bs) == bs[Len(bs)]

(* The number of bits of the natural number n (0 for 0). *)
width(n) == CHOOSE w \in 0..30 : n < 2^w /\ (w > 0 => 2^(w - 1) <= n)

(* The low w bits of n, as a numeral of w bits. *)
to_bits(n, w) == [j \in 1..w |-> (n \div 2^(w - j)) % 2]

(* The binary numeral of the natural number n (<<>> for 0). *)
nat_bits(n) == to_bits(n, width(n))

(* The number a numeral of Chunk bits or fewer stands for. *)
RECURSIVE bits_value(_)
bits_value(bs) ==
    IF bs = <<>> THEN 0 ELSE 2 * bits_value(Front(bs)) + Last(bs)

(* The chunks of the numeral bs, the least significant first. *)
chunks(bs) ==
    LET n == (Len(bs) + Chunk - 1) \div Chunk
    IN  [i \in 1..n |->
            LET lo == Len(bs) - i * Chunk + 1
            IN  bits_value(SubSeq(bs, IF lo < 1 THEN 1 ELSE lo,
                                  Len(bs) - (i - 1) * Chunk))]

(* The numeral, without leading zeros, of the chunks cs. *)
numeral(cs) ==
    LET nz == {i \in 1..Len(cs) : cs[i] # 0}
    IN  IF nz = {} THEN <<>>
        ELSE LET top == CHOOSE i \in nz : \A j \in nz : j <= i
                 n   == (top - 1) * Chunk + width(cs[top])
             IN  [j \in 1..n |->
                     (cs[(n - j) \div Chunk + 1] \div 2^((n - j) % Chunk)) % 2]

(* The chunks of cs * k + carry. *)
RECURSIVE chunks_times(_, _, _)
chunks_times(cs, k, carry) ==
    IF cs = <<>>
    THEN IF carry = 0 THEN <<>>
         ELSE <<carry % 2^Chunk>> \o chunks_times(cs, k, carry \div 2^Chunk)
    ELSE LET acc == Head(cs) * k + carry
         IN  <<acc % 2^Chunk>> \o chunks_times(Tail(cs), k, acc \div 2^Chunk)

(* The numeral of bs * k + carry, k and carry natural numbers. *)
times(bs, k, carry) == numeral(chunks_times(chunks(bs), k, carry))

(* The numeral bs plus one. *)
increment(bs) ==
    LET zs == {j \in 1..Len(bs) : bs[j] = 0}
    IN  IF zs = {} THEN <<1>> \o [j \in 1..Len(bs) |-> 0]
        ELSE LET z == CHOOSE j \in zs : \A i \in zs : i <= j
             IN  [j \in 1..Len(bs) |->
                     IF j < z THEN bs[j] ELSE IF j = z THEN 1 ELSE 0]

(***************************************************************************)
(* The float nearest to bs * 2^e (plus a fraction of 2^e when sticky),     *)
(* ties to the even significand: bs is a numeral of Precision bits or      *)
(* more, of more than Precision when sticky.                               *)
(***************************************************************************)
round(bs, e, sticky) ==
    LET d     == Len(bs) - Precision
        keep  == SubSeq(bs, 1, Precision)
        guard == IF d > 0 THEN bs[Precision + 1] ELSE 0
        rest  == sticky \/ \E j \in (Precision + 2)..Len(bs) : bs[j] = 1
        up    == guard = 1 /\ (rest \/ keep[Precision] = 1)
        m     == IF up THEN increment(keep) ELSE keep
    IN  IF Len(m) > Precision
        THEN [ mant |-> SubSeq(m, 1, Precision), exp |-> e + d + 1 ]
        ELSE [ mant |-> m, exp |-> e + d ]

(* a and b > 0 scaled by powers of two to b <= a < 2b: a/b is then 2^e times *)
(* what it was.                                                              *)
RECURSIVE scale(_, _, _)
scale(a, b, e) ==
    IF a < b THEN scale(2 * a, b, e - 1)
    ELSE IF a >= 2 * b THEN scale(a, 2 * b, e + 1)
    ELSE [ a |-> a, b |-> b, e |-> e ]

(* The next n bits of the binary expansion of r / b, r < b, and what *)
(* remains, Chunk bits at a time.                                    *)
RECURSIVE quotient(_, _, _)
quotient(r, b, n) ==
    IF n = 0 THEN [ bits |-> <<>>, rem |-> r ]
    ELSE LET w == IF n < Chunk THEN n ELSE Chunk
             v == r * 2^w
             q == quotient(v % b, b, n - w)
         IN  [ bits |-> to_bits(v \div b, w) \o q.bits, rem |-> q.rem ]

(* int / int: the float nearest to the quotient of a >= 0 by b > 0. *)
truediv(a, b) ==
    IF a = 0 THEN Zero
    ELSE LET s == scale(a, b, 0)
             q == quotient(s.a - s.b, s.b, Precision)
         IN  round(<<1>> \o q.bits, s.e - Precision, q.rem # 0)

(* float * int, for an int k >= 0 that is a float exactly: the float nearest *)
(* to the product.                                                           *)
mul(x, k) ==
    IF x = Zero \/ k = 0 THEN Zero
    ELSE round(times(x.mant, k, 0), x.exp, FALSE)

(* completed / total * 100: the division is rounded, then the product. *)
completion_rate(completed, total) == mul(truediv(completed, total), 100)

(* Mutant: every task that is not completed is counted as pending. *)
get_stats_rest_pending(ts) ==
    LET is_completed(t) == t.status = "completed"
        total     == Len(ts)
        completed == Len(SelectSeq(ts, is_completed))
    IN  [ total           |-> total,
          pending         |-> total - completed,
          completed       |-> completed,
          completion_rate |-> IF total > 0 THEN completion_rate(completed, total)
                                           ELSE 0 ]

(* TaskManager.get_stats *)
get_stats(ts) ==
    LET is_pending(t)   == t.status = "pending"
        is_completed(t) == t.status = "completed"
        total     == Len(ts)
        pending   == Len(SelectSeq(ts, is_pending))
        completed == Len(SelectSeq(ts, is_completed))
    IN  [ total           |-> total,
          pending         |-> pending,
          completed       |-> completed,
          completion_rate |-> IF total > 0 THEN completion_rate(completed, total)
                                           ELSE 0 ]

(* Mutant: the handler does not test the title. *)
add_task_button_unchecked(ts, st, title, description, c1, c2) ==
    LET r == add_task(ts, st, title, description, c1, c2)
    IN  [ tasks |-> r.tasks, store |-> r.store, op |-> "add",
          raised |-> r.raised, val |-> r.val ]

(* The "Add Task" button handler. *)
add_task_button(ts, st, title, description, c1, c2) ==
    IF truthy(title)
    THEN LET r == add_task(ts, st, title, description, c1, c2)
         IN  [ tasks |-> r.tasks, store |-> r.store, op |-> "add",
               raised |-> r.raised, val |-> r.val ]
    ELSE [ tasks |-> ts, store |-> st, op |-> "add_rejected",
           raised |-> None, val |-> "Title cannot be empty!" ]

----------------------------------------------------------------------------

Init ==
    /\ pc = "start"
    /\ tasks = <<>>
    /\ store = <<>>
    /\ clock = 0
    /\ op = "none"
    /\ arg = None
    /\ raised = None
    /\ val = None

(* manager = TaskManager(), at every run of the script. *)
TaskManagerInit ==
    \E c \in clock..MaxClock :
        LET r == _load_tasks(store, c)
        IN  /\ pc' = "ready"
            /\ tasks' = r.tasks
            /\ store' = r.store
            /\ clock' = c
            /\ op' = "init"
            /\ arg' = (store # <<>>)
            /\ raised' = None
            /\ val' = None

AddTaskButton(title, description) ==
    /\ pc = "ready"
    /\ \E c1 \in clock..MaxClock : \E c2 \in c1..MaxClock :
        LET r == add_task_button(tasks, store, title, description, c1, c2)
        IN  /\ Len(r.tasks) <= MaxTasks
            /\ r.op = "add_rejected" => c2 = clock
            /\ tasks' = r.tasks
            /\ store' = r.store
            /\ clock' = c2
            /\ op' = r.op
            /\ arg' = <<title, description>>
            /\ raised' = r.raised
            /\ val' = r.val
    /\ UNCHANGED pc

GetTaskById(task_id) ==
    /\ pc = "ready"
    /\ op' = "get"
    /\ arg' = task_id
    /\ raised' = None
    /\ val' = get_task_by_id(tasks, task_id)
    /\ UNCHANGED <<pc, tasks, store, clock>>

UpdateTask(task_id, kw) ==
    /\ pc = "ready"
    /\ \E c \in clock..MaxClock :
        LET r == update_task(tasks, store, task_id, kw, c)
        IN  /\ ~r.now => c = clock
            /\ tasks' = r.tasks
            /\ store' = r.store
            /\ clock' = c
            /\ op' = "update"
            /\ arg' = task_id
            /\ raised' = r.raised
            /\ val' = r.val
    /\ UNCHANGED pc

DeleteTask(task_id) ==
    /\ pc = "ready"
    /\ LET r == delete_task(tasks, store, task_id)
       IN  /\ tasks' = r.tasks
           /\ store' = r.store
           /\ op' = "delete"
           /\ arg' = task_id
           /\ raised' = r.raised
           /\ val' = r.val
    /\ UNCHANGED <<pc, clock>>

GetAllTasks(status_filter) ==
    /\ pc = "ready"
    /\ op' = "list"
    /\ arg' = status_filter
    /\ raised' = None
    /\ val' = get_all_tasks(tasks, status_filter)
    /\ UNCHANGED <<pc, tasks, store, clock>>

(* The caller removes the last element of the list get_all_tasks returned. *)
PopReturnedList ==
    /\ pc = "ready"
    /\ op = "list"
    /\ val.items # <<>>
    /\ op' = "list_pop"
    /\ arg' = arg
    /\ raised' = None
    /\ val' = SubSeq(val.items, 1, Len(val.items) - 1)
    /\ tasks' = IF val.shared THEN SubSeq(tasks, 1, Len(tasks) - 1) ELSE tasks
    /\ UNCHANGED <<pc, store, clock>>

GetStats ==
    /\ pc = "ready"
    /\ op' = "stats"
    /\ arg' = None
    /\ raised' = None
    /\ val' = get_stats(tasks)
    /\ UNCHANGED <<pc, tasks, store, clock>>

(* The calls on the manager, update_task with the keyword arguments kws. *)
Calls(kws) ==
    \/ TaskManagerInit
    \/ \E in \in AddInputs : AddTaskButton(in[1], in[2])
    \/ \E task_id \in TaskIds : GetTaskById(task_id)
    \/ \E task_id \in TaskIds, k \in 1..Len(kws) : UpdateTask(task_id, kws[k])
    \/ \E task_id \in TaskIds : DeleteTask(task_id)
    \/ \E status_filter \in StatusFilters : GetAllTasks(status_filter)
    \/ PopReturnedList
    \/ GetStats

(* update_task sets the status, as the checkbox of the task list does. *)
Next == Calls(StatusKwargs)

Spec == Init /\ [][Next]_vars

(* update_task sets any attribute. *)
NextAttrs == Calls(AttrKwargs)

SpecAttrs == Init /\ [][NextAttrs]_vars

----------------------------------------------------------------------------
(* Helpers of the properties. *)

Positions == 1..Len(tasks)

(* The positions of the tasks of ts whose status is s. *)
WithStatus(ts, s) == {i \in 1..Len(ts) : ts[i].status = s}

(* The k-th smallest element of the set of positions S. *)
Nth(S, k) == CHOOSE i \in S : Cardinality({j \in S : j < i}) = k - 1

(* items holds exactly the tasks of ts with status s, in the order of ts. *)
IsSelection(items, ts, s) ==
    /\ Len(items) = Cardinality(WithStatus(ts, s))
    /\ \A k \in 1..Len(items) : items[k] = ts[Nth(WithStatus(ts, s), k)]

TaskFields == {"id", "title", "description", "status", "created_at", "updated_at"}

(* The numeral of n zeros. *)
zeros(n) == [j \in 1..n |-> 0]

(* The chunks of a + b + carry. *)
RECURSIVE chunks_plus(_, _, _)
chunks_plus(a, b, carry) ==
    IF a = <<>> /\ b = <<>> THEN IF carry = 0 THEN <<>> ELSE <<carry>>
    ELSE LET x   == IF a = <<>> THEN 0 ELSE Head(a)
             y   == IF b = <<>> THEN 0 ELSE Head(b)
             a1  == IF a = <<>> THEN a ELSE Tail(a)
             b1  == IF b = <<>> THEN b ELSE Tail(b)
             acc == x + y + carry
         IN  <<acc % 2^Chunk>> \o chunks_plus(a1, b1, acc \div 2^Chunk)

(* The numeral of a + b. *)
plus(a, b) == numeral(chunks_plus(chunks(a), chunks(b), 0))

(* a <= b, for numerals without leading zeros. *)
bits_leq(a, b) ==
    \/ Len(a) < Len(b)
    \/ /\ Len(a) = Len(b)
       /\ \/ a = b
          \/ \E i \in 1..Len(a) :
                /\ a[i] < b[i]
                /\ \A j \in 1..(i - 1) : a[j] = b[j]

(***************************************************************************)
(* The float x is p / q (p, q > 0) within the error two roundings leave:   *)
(* |x - p/q| <= 2^-(Precision - 2) * p/q.  With x = mant * 2^exp, k =      *)
(* Precision - 1 + exp and both sides multiplied by q * 2^(Precision - 1): *)
(*   |mant * q * 2^k - p * 2^(Precision - 1)| <= 2p,                       *)
(* and by 2^-k more when k < 0.                                            *)
(***************************************************************************)
Near(x, p, q) ==
    /\ Len(x.mant) = Precision
    /\ x.mant[1] = 1
    /\ LET k  == Precision - 1 + x.exp
           up == IF k > 0 THEN k ELSE 0
           dn == IF k < 0 THEN 0 - k ELSE 0
           A  == times(x.mant, q, 0) \o zeros(up)
           B  == nat_bits(p) \o zeros(Precision - 1 + dn)
           D  == nat_bits(2 * p) \o zeros(dn)
       IN  /\ bits_leq(A, plus(B, D))
           /\ bits_leq(B, plus(A, D))

(* The float of the natural number n > 0 (n < 2^Precision). *)
float(n) ==
    [ mant |-> nat_bits(n) \o zeros(Precision - Len(nat_bits(n))),
      exp  |-> Len(nat_bits(n)) - Precision ]

----------------------------------------------------------------------------
(* C1: no two tasks of the collection have the same id. *)
UniqueIds ==
    \A i, j \in Positions : i # j => tasks[i].id # tasks[j].id

(* C2: get(id) called right after delete(id) returns None, whatever delete *)
(* returned.                                                               *)
DeleteThenGetNotFound ==
    [][(op = "delete" /\ op' = "get" /\ arg' = arg)
          => val' = 0]_vars

(* C3: for every task t of the collection, get(t.id) returns the task at *)
(* t's position.                                                         *)
GetReturnsSameTask ==
    op = "get" =>
        \A i \in Positions : tasks[i].id = arg => val = i

(* C4: add returns a task, which has an id, status pending, and created_at *)
(* equal to updated_at.                                                    *)
AddReturnsFreshTask ==
    op = "add" =>
        /\ raised = None
        /\ val.id \in Nat
        /\ val.status = "pending"
        /\ val.created_at = val.updated_at

(* C5: an add with an empty title is rejected, and leaves the collection *)
(* and the snapshot as they were.                                        *)
EmptyTitleRejected ==
    [][((op' = "add" \/ op' = "add_rejected") /\ arg'[1] = "")
          => (op' = "add_rejected" /\ tasks' = tasks /\ store' = store)]_vars

EmptyTitleRejectedWitness ==
    /\ op = "add_rejected"
    /\ arg = <<"", "d">>
    /\ Len(tasks) = 1
    /\ store = _save_tasks(tasks, store).store

(* C6: the snapshot holds, in order, one record per task of the collection *)
(* with the six fields of the task; a manager constructed from it holds    *)
(* the same tasks with the same six fields, whatever the clock reads then; *)
(* constructed with no snapshot, the manager holds no task.                *)
SnapshotMirrorsCollection ==
    /\ pc = "ready" =>
          /\ Len(store) = 1
          /\ Len(store[1]) = Len(tasks)
          /\ \A i \in Positions :
                /\ DOMAIN store[1][i] = TaskFields
                /\ \A f \in TaskFields : store[1][i][f] = tasks[i][f]
          /\ \A c \in clock..MaxClock :
                LET loaded == _load_tasks(store, c).tasks
                IN  /\ Len(loaded) = Len(tasks)
                    /\ \A i \in Positions :
                          \A f \in TaskFields : loaded[i][f] = tasks[i][f]
    /\ (op = "init" /\ ~arg) => tasks = <<>>

(* C7: stats() returns the number of tasks, of pending tasks, of completed *)
(* tasks, and the float completed / total * 100: 0 on the empty            *)
(* collection, 0.0 when no task is completed, and otherwise the quotient   *)
(* within the rounding error of the two float operations (the quotient     *)
(* itself when total is 1, 2 or 4: no operation rounds then).              *)
StatsCorrect ==
    op = "stats" =>
        LET s == val
            n == Cardinality(WithStatus(tasks, "completed"))
        IN  /\ s.total = Len(tasks)
            /\ s.pending = Cardinality(WithStatus(tasks, "pending"))
            /\ s.completed = n
            /\ s.total = 0 => s.completion_rate = 0
            /\ (s.total > 0 /\ n = 0) => s.completion_rate = Zero
            /\ n > 0 => Near(s.completion_rate, n * 100, s.total)
            /\ (n > 0 /\ s.total \in {1, 2, 4}) =>
                    s.completion_rate = float((n * 100) \div s.total)

StatsCorrectWitness ==
    /\ op = "stats"
    /\ val.total = 2
    /\ val.pending = 0
    /\ val.completed = 1
    /\ val.completion_rate = float(50)

(* C9: list() returns all the tasks in order, list(s) exactly the tasks of *)
(* status s in order; the call leaves the collection unchanged, and so     *)
(* does a modification of the list returned.                               *)
ListReturnsCopy ==
    [][/\ op' = "list" =>
            /\ tasks' = tasks /\ store' = store
            /\ IF arg' = None
               THEN val'.items = tasks
               ELSE IsSelection(val'.items, tasks, arg')
       /\ op' = "list_pop" => (tasks' = tasks /\ store' = store)]_vars

ListReturnsCopyWitness ==
    /\ op = "list_pop"
    /\ arg = None
    /\ Len(val) = 1
    /\ Len(tasks) = 2
    /\ tasks[1].status # tasks[2].status

(* C8: an update that returns True adds no attribute to the task and *)
(* leaves its id and created_at, and every other task, as they were. *)
UpdateKeepsIdentity ==
    [][(op' = "update" /\ raised' = None /\ val' = TRUE) =>
          LET i == get_task_by_id(tasks, arg')
          IN  /\ Len(tasks') = Len(tasks)
              /\ \A j \in Positions : j # i => tasks'[j] = tasks[j]
              /\ DOMAIN tasks'[i] = DOMAIN tasks[i]
              /\ tasks'[i].id = tasks[i].id
              /\ tasks'[i].created_at = tasks[i].created_at]_vars

(* C10: update and delete of an id no task has raise nothing, return False *)
(* and leave the collection and the snapshot as they were.                 *)
NotFoundChangesNothing ==
    [][((op' = "update" \/ op' = "delete")
          /\ \A i \in Positions : tasks[i].id # arg')
          => (raised' = None /\ val' = FALSE
              /\ tasks' = tasks /\ store' = store)]_vars

NotFoundChangesNothingWitness ==
    /\ op = "update"
    /\ raised = None
    /\ val = FALSE
    /\ Len(tasks) = 2
    /\ \A i \in Positions : tasks[i].id # arg

====
